---- MODULE Spec2Model ----
(***************************************************************************)
(* State-machine model of WindAnalyzer (src/windPattern_roseWind.py).      *)
(*                                                                         *)
(* Representation choices.                                                 *)
(*  - A float is a record [t, v]: t = "num" is the finite value v (whole   *)
(*    degrees or m/s), "nan" is NaN (what pandas calls null), "inf" is     *)
(*    +infinity and "negtiny" is a finite negative float whose magnitude   *)
(*    is below half an ulp of 360 (for instance -1e-20).                   *)
(*  - A DataFrame is a multiset of rows: a function from row to its        *)
(*    number of copies.  No modelled operation depends on the row order.   *)
(*  - weibull_min.fit is a library routine; its result is kept as a term   *)
(*    over the sample it was given (equal samples give equal parameters).  *)
(*  - A float sum is kept as the multiset of its summands, a quotient as   *)
(*    the pair [num, den].                                                 *)
(***************************************************************************)
EXTENDS Integers, Sequences, FiniteSets, TLC

VARIABLES dados, tem_altura, estacoes, parametros_weibull, arquivos, ret,
          ultimo_ajuste

vars == <<dados, tem_altura, estacoes, parametros_weibull, arquivos, ret,
          ultimo_ajuste>>

(***************************************************************************)
(* Program constants                                                       *)
(***************************************************************************)
Circulo == 360
MinAmostras == 10
SetoresPadrao == 16

(***************************************************************************)
(* Bounds of the model                                                     *)
(***************************************************************************)
MaxSetores == 1
MaxAlturas == 2
MaxLotes == 2

(***************************************************************************)
(* Floats                                                                  *)
(***************************************************************************)
Num(n) == [t |-> "num", v |-> n]
NaN == [t |-> "nan", v |-> 0]
PosInf == [t |-> "inf", v |-> 0]
NegTiny == [t |-> "negtiny", v |-> 0]

\* pandas isna: NaN/None are null, infinities are not
IsNull(x) == x.t = "nan"

\* x >= n for an integer n
FloatGe(x, n) ==
    CASE x.t = "num" -> x.v >= n
      [] x.t = "inf" -> TRUE
      [] x.t = "negtiny" -> 0 > n
      [] OTHER -> FALSE

\* x % 360 in IEEE double arithmetic with the sign of the divisor: 360 - eps
\* rounds to 360.0, and the remainder of an infinity is NaN
Mod360(x) ==
    CASE x.t = "num" -> Num(x.v % Circulo)
      [] x.t = "negtiny" -> Num(Circulo)
      [] OTHER -> NaN

(***************************************************************************)
(* Multisets of rows                                                       *)
(***************************************************************************)
Vazio == [x \in {} |-> 0]

RECURSIVE SomaDe(_, _)
SomaDe(S, f) ==
    IF S = {} THEN 0
    ELSE LET x == CHOOSE y \in S : TRUE IN f[x] + SomaDe(S \ {x}, f)

\* len(df)
Tamanho(b) == SomaDe(DOMAIN b, b)

\* df[mask], the mask given as the set of rows it selects
Filtrar(b, mascara) == [r \in mascara \cap DOMAIN b |-> b[r]]

\* a column computed row by row, given as a function of the row; rows that
\* become equal are counted together
Mapear(b, f) ==
    LET img == {f[r] : r \in DOMAIN b}
    IN [y \in img |-> SomaDe({x \in DOMAIN b : f[x] = y}, b)]

(***************************************************************************)
(* WindAnalyzer._preprocess_data                                           *)
(***************************************************************************)
\* self.dados['direcao'] = self.dados['direcao'] % 360
NormalizarDirecao(r) == [r EXCEPT !.direcao = Mod360(r.direcao)]

Preprocess(bruto) ==
    LET semNulos ==
            Filtrar(bruto, {r \in DOMAIN bruto :
                               ~IsNull(r.direcao) /\ ~IsNull(r.velocidade)})
        normal == Mapear(semNulos, [r \in DOMAIN semNulos |-> NormalizarDirecao(r)])
    IN Filtrar(normal, {r \in DOMAIN normal : FloatGe(r.velocidade, 0)})

(***************************************************************************)
(* WindAnalyzer.calcular_estatisticas                                      *)
(***************************************************************************)
None == "<None>"

\* self.dados if estacao is None else self.dados[self.dados['estacao'] == estacao]
FiltrarEstacao(b, estacao) ==
    IF estacao = None THEN b ELSE Filtrar(b, {r \in DOMAIN b : r.estacao = estacao})

\* dados['velocidade'] as a multiset of finite speeds
Velocidades(b) == Mapear(b, [r \in DOMAIN b |-> r.velocidade.v])

SomaVelocidades(vs) == SomaDe(DOMAIN vs, [x \in DOMAIN vs |-> x * vs[x]])

\* Series.mean(): the quotient soma/n, NaN for an empty series (n = 0)
Media(vs) == [soma |-> SomaVelocidades(vs), n |-> Tamanho(vs)]

Maximo(vs) == IF DOMAIN vs = {} THEN NaN
              ELSE Num(CHOOSE x \in DOMAIN vs : \A y \in DOMAIN vs : y <= x)

Minimo(vs) == IF DOMAIN vs = {} THEN NaN
              ELSE Num(CHOOSE x \in DOMAIN vs : \A y \in DOMAIN vs : x <= y)

\* std, the circular mean and the turbulence are real functions of the
\* filtered sample; they are kept as terms over it
Estatisticas(b, estacao) ==
    LET d == FiltrarEstacao(b, estacao)
        vs == Velocidades(d)
    IN [media_velocidade |-> Media(vs),
        max_velocidade |-> Maximo(vs),
        min_velocidade |-> Minimo(vs),
        desvio_velocidade |-> [fn |-> "std", de |-> vs],
        media_direcao |->
            [fn |-> "circular", de |-> Mapear(d, [r \in DOMAIN d |-> r.direcao])],
        frequencia_calmar |->
            [num |-> Tamanho(Filtrar(vs, {x \in DOMAIN vs : 2 * x < 1})),
             den |-> Tamanho(vs)],
        turbulencia |-> [fn |-> "std/mean", de |-> vs]]

(***************************************************************************)
(* WindAnalyzer.ajustar_distribuicao_weibull                               *)
(***************************************************************************)
\* the mask of sector i of N: limites_setores[j] = 360*j/N, compared after
\* multiplying through by N; the last sector is closed at 360.  A NaN
\* direction compares false with every limit.
NoSetor(d, i, N) ==
    /\ d.t = "num"
    /\ d.v * N >= Circulo * i
    /\ IF i = N - 1 THEN d.v <= Circulo ELSE d.v * N < Circulo * (i + 1)

\* the rows the mask of sector i of N selects
Mascara(d, i, N) == {r \in DOMAIN d : NoSetor(r.direcao, i, N)}

\* dados[mascara]['velocidade']
DadosSetor(d, i, N) == Velocidades(Filtrar(d, Mascara(d, i, N)))

\* len(dados_setor): the number of rows the mask selects
TamanhoSetor(d, i, N) == SomaDe(Mascara(d, i, N), d)

\* weibull_min.fit(dados_setor, floc=0): determined by the sample
WeibullFit(amostra) ==
    [k |-> [fn |-> "shape", de |-> amostra], c |-> [fn |-> "scale", de |-> amostra]]

\* the threshold taken as "at least MinAmostras"
SuficienteFrouxo(n) == n >= MinAmostras

\* if len(dados_setor) > 10
Suficiente(n) == n > MinAmostras

\* the dictionary parametros built by the loop; key f'setor_{i}' is index i
Parametros(d, N) ==
    LET total == Tamanho(d)
    IN [i \in {j \in 0 .. N - 1 : Suficiente(TamanhoSetor(d, j, N))} |->
           LET dados_setor == DadosSetor(d, i, N)
           IN [k |-> WeibullFit(dados_setor).k, c |-> WeibullFit(dados_setor).c,
               frequencia |-> [num |-> TamanhoSetor(d, i, N), den |-> total]]]

\* chave = estacao if estacao else 'global': None and '' are both falsy
Chave(estacao) == IF estacao # None /\ estacao # "" THEN estacao ELSE "global"

\* the assignment taken as an update of the entry already there
ArmazenarMesclando(cache, chave, parametros) ==
    [x \in DOMAIN cache \cup {chave} |->
        IF x # chave THEN cache[x]
        ELSE IF chave \notin DOMAIN cache THEN parametros
        ELSE [i \in DOMAIN cache[chave] \cup DOMAIN parametros |->
                 IF i \in DOMAIN parametros THEN parametros[i] ELSE cache[chave][i]]]

\* self.parametros_weibull[chave] = parametros
Armazenar(cache, chave, parametros) ==
    [x \in DOMAIN cache \cup {chave} |-> IF x = chave THEN parametros ELSE cache[x]]

\* the whole method as a function of the cache: the cache after the call
AposAjuste(cache, estacao, N) ==
    Armazenar(cache, Chave(estacao), Parametros(FiltrarEstacao(dados, estacao), N))

(***************************************************************************)
(* WindAnalyzer.calcular_potencial_eolico                                  *)
(***************************************************************************)
\* densidade_ar = 1.225, as the quotient 1225/1000
DensidadeAr == [num |-> 1225, den |-> 1000]

\* 0.5 * densidade_ar * (c**3) * (1+3/k) * freq for one sector
PotenciaMedia(vals) ==
    [rho |-> DensidadeAr, c |-> vals.c, k |-> vals.k, freq |-> vals.frequencia]

\* potencia_total: 0.0 plus one summand per item of parametros
PotenciaTotal(parametros) ==
    Mapear([i \in DOMAIN parametros |-> 1],
           [i \in DOMAIN parametros |-> PotenciaMedia(parametros[i])])

\* if estacao not in self.parametros_weibull: self.ajustar_distribuicao_weibull(estacao)
CacheParaPotencial(cache, estacao) ==
    IF estacao \notin DOMAIN cache THEN AposAjuste(cache, estacao, SetoresPadrao)
    ELSE cache

(***************************************************************************)
(* WindAnalyzer.gerar_relatorio                                            *)
(***************************************************************************)
\* _classificar_potencial and the recommendation compare the float power with
\* fixed thresholds; they are kept as terms over the power they are given
Classificar(potencial) == [fn |-> "_classificar_potencial", de |-> potencial]

Recomendar(potencial) == [fn |-> "recomendacao", de |-> potencial]

\* the report without the fit of line 229
CacheSemReajuste(cache, estacao) == cache

\* self.ajustar_distribuicao_weibull(estacao) of line 229
CacheParaRelatorio(cache, estacao) == AposAjuste(cache, estacao, SetoresPadrao)

\* the report text: its fields in the order they are formatted
TextoRelatorio(estacao, estatisticas, linhas, potencial) ==
    [estacao |-> estacao, estatisticas |-> estatisticas, setores |-> linhas,
     potencial |-> potencial, classificacao |-> Classificar(potencial),
     recomendacao |-> Recomendar(potencial)]

(***************************************************************************)
(* WindAnalyzer.analisar_cissalhamento                                     *)
(***************************************************************************)
\* self.dados[mascara]['velocidade'].mean() for one height
MediaAltura(estacao, altura) ==
    Media(Velocidades(Filtrar(dados,
        {r \in DOMAIN dados : r.estacao = estacao /\ r.altura = altura})))

\* what the try block raises, "" when it raises nothing: the index error of
\* velocidades_medias[1], then Python's int division alturas[1]/alturas[0];
\* numpy's division and log only warn and return inf or NaN
ErroNoTry(alturas) ==
    IF Len(alturas) < 2 THEN "IndexError"
    ELSE IF alturas[1] = 0 THEN "ZeroDivisionError"
    ELSE ""

\* np.log(v[1]/v[0]) / np.log(alturas[1]/alturas[0]), as a term
Alpha(medias, alturas) ==
    [ln_num |-> <<medias[2], medias[1]>>, ln_den |-> <<alturas[2], alturas[1]>>]

Resultados(estacao, alturas) ==
    LET medias == [j \in 1 .. Len(alturas) |-> MediaAltura(estacao, alturas[j])]
    IN IF ErroNoTry(alturas) # ""
       THEN [erro |-> "dados insuficientes"]
       ELSE [expoente_cissalhamento |-> Alpha(medias, alturas),
             perfil_vertical |->
                 [h \in {alturas[j] : j \in 1 .. Len(alturas)} |->
                     MediaAltura(estacao, h)]]

(***************************************************************************)
(* Inputs                                                                  *)
(***************************************************************************)
Linha(e, d, v, h) == [estacao |-> e, direcao |-> d, velocidade |-> v, altura |-> h]

\* n copies of one raw row
Lote(linha, n) == [x \in {linha} |-> n]

\* the union of two multisets of rows (pd.concat)
Juntar(b1, b2) ==
    [r \in DOMAIN b1 \cup DOMAIN b2 |->
        (IF r \in DOMAIN b1 THEN b1[r] ELSE 0) + (IF r \in DOMAIN b2 THEN b2[r] ELSE 0)]

RECURSIVE JuntarTodos(_)
JuntarTodos(S) ==
    IF S = {} THEN Vazio
    ELSE LET x == CHOOSE y \in S : TRUE IN Juntar(x, JuntarTodos(S \ {x}))

\* station A: MinAmostras + 1 rows at 45 degrees, and MinAmostras rows in the
\* sector of 200 degrees: one calm row at 200 and the others at -160 (= 200)
LoteA ==
    Juntar(Lote(Linha("A", Num(45), Num(5), 10), MinAmostras + 1),
           Juntar(Lote(Linha("A", Num(-160), Num(7), 50), MinAmostras - 1),
                  Lote(Linha("A", Num(200), Num(0), 50), 1)))

\* rows of station A whose direction is a tiny negative float
LoteNegTiny == Lote(Linha("A", NegTiny, Num(5), 10), MinAmostras + 1)

\* rows of station A whose direction is infinite
LoteInf == Lote(Linha("A", PosInf, Num(5), 10), MinAmostras + 1)

\* a station named "global", with one row without direction, and a station
\* named "" whose only row has a negative speed
LoteGlobal ==
    Juntar(Lote(Linha("global", Num(45), Num(5), 10), MinAmostras + 1),
           Juntar(Lote(Linha("global", NaN, Num(5), 10), 1),
                  Lote(Linha("", Num(200), Num(-1), 10), 1)))

\* batches of raw rows of a dataset that has the 'altura' column
LotesComAltura == {LoteA, LoteNegTiny, LoteInf, LoteGlobal}

\* the batch of a dataset without it (the field is never read)
LotesSemAltura == {Lote(Linha("A", Num(45), Num(5), 0), MinAmostras + 1)}

\* the raw datasets: at most MaxLotes batches put together
ConjuntosDe(L) ==
    {JuntarTodos(S) : S \in {X \in SUBSET L : Cardinality(X) <= MaxLotes}}

\* the raw datasets with and without the 'altura' column
Brutos(com_altura) ==
    IF com_altura THEN ConjuntosDe(LotesComAltura)
    ELSE ConjuntosDe(LotesSemAltura) \ {Vazio}

EstacoesArg == {"A", "global", ""}

SetoresArg == (1 .. MaxSetores) \cup {SetoresPadrao}

AlturasArg == {0, 10, 50}

ListasDeAlturas == UNION {[1 .. n -> AlturasArg] : n \in 0 .. MaxAlturas}

\* the heights of the shear example
ListaExemplo == <<10, 50>>

ArquivosArg == {None, "relatorio.txt"}

(***************************************************************************)
(* WindAnalyzer.__init__                                                   *)
(***************************************************************************)
Construir(bruto, com_altura) ==
    /\ dados = Preprocess(bruto)
    /\ tem_altura = com_altura
    /\ estacoes = {r.estacao : r \in DOMAIN bruto}
    /\ parametros_weibull = Vazio
    /\ arquivos = Vazio
    /\ ultimo_ajuste = Vazio
    /\ ret = [op |-> "__init__", levantou |-> ""]

Init ==
    \E com_altura \in BOOLEAN :
        \E bruto \in Brutos(com_altura) :
            Construir(bruto, com_altura)

(***************************************************************************)
(* Operations                                                              *)
(***************************************************************************)
\* whether the cache holds a key before a call, and whether that entry has a
\* sector key that the mapping stored by the call does not have
Entrada(cache, chave, novo) ==
    [presente |-> chave \in DOMAIN cache,
     outros_setores |->
         chave \in DOMAIN cache /\ DOMAIN cache[chave] \ DOMAIN novo # {}]

\* the result returned by the latest fit call of each key
Registrar(chave, parametros) ==
    [x \in DOMAIN ultimo_ajuste \cup {chave} |->
        IF x = chave THEN parametros ELSE ultimo_ajuste[x]]

CalcularEstatisticas(estacao) ==
    /\ ret' = [op |-> "calcular_estatisticas", estacao |-> estacao, levantou |-> "",
               val |-> Estatisticas(dados, estacao)]
    /\ UNCHANGED <<dados, tem_altura, estacoes, parametros_weibull, arquivos,
                   ultimo_ajuste>>

AjustarDistribuicaoWeibull(estacao, setores) ==
    LET parametros == Parametros(FiltrarEstacao(dados, estacao), setores)
    IN /\ parametros_weibull' = Armazenar(parametros_weibull, Chave(estacao), parametros)
       /\ ultimo_ajuste' = Registrar(Chave(estacao), parametros)
       /\ ret' = [op |-> "ajustar_distribuicao_weibull", estacao |-> estacao,
                  setores |-> setores, levantou |-> "", val |-> parametros,
                  antes |-> Entrada(parametros_weibull, Chave(estacao), parametros)]
       /\ UNCHANGED <<dados, tem_altura, estacoes, arquivos>>

CalcularPotencialEolico(estacao) ==
    LET ajusta == estacao \notin DOMAIN parametros_weibull
        cache == CacheParaPotencial(parametros_weibull, estacao)
    IN /\ parametros_weibull' = cache
       /\ ultimo_ajuste' =
            IF ajusta
            THEN Registrar(Chave(estacao),
                           Parametros(FiltrarEstacao(dados, estacao), SetoresPadrao))
            ELSE ultimo_ajuste
       /\ ret' = IF estacao \in DOMAIN cache
                 THEN [op |-> "calcular_potencial_eolico", estacao |-> estacao,
                       levantou |-> "", val |-> PotenciaTotal(cache[estacao]),
                       ajustes |-> IF ajusta THEN 1 ELSE 0]
                 ELSE [op |-> "calcular_potencial_eolico", estacao |-> estacao,
                       levantou |-> "KeyError",
                       ajustes |-> IF ajusta THEN 1 ELSE 0]
       /\ UNCHANGED <<dados, tem_altura, estacoes, arquivos>>

\* the report without the check of the station
EstacaoNaoVerificada(estacao) == TRUE

\* if estacao not in self.estacoes
EstacaoConhecida(estacao) == estacao \in estacoes

GerarRelatorio(estacao, arquivo_saida) ==
    IF ~EstacaoConhecida(estacao)
    THEN /\ ret' = [op |-> "gerar_relatorio", estacao |-> estacao,
                    arquivo_saida |-> arquivo_saida, levantou |-> "ValueError",
                    ajustes |-> 0]
         /\ UNCHANGED <<dados, tem_altura, estacoes, parametros_weibull, arquivos,
                        ultimo_ajuste>>
    ELSE LET ajustado == CacheParaRelatorio(parametros_weibull, estacao)
             cache == CacheParaPotencial(ajustado, estacao)
             ajustes == IF estacao \in DOMAIN ajustado THEN 1 ELSE 2
             ok == estacao \in DOMAIN cache
             relatorio == TextoRelatorio(estacao, Estatisticas(dados, estacao),
                                         cache[estacao], PotenciaTotal(cache[estacao]))
         IN /\ parametros_weibull' = cache
            /\ ultimo_ajuste' =
                 Registrar(Chave(estacao),
                           Parametros(FiltrarEstacao(dados, estacao), SetoresPadrao))
            /\ ret' = IF ok
                      THEN [op |-> "gerar_relatorio", estacao |-> estacao,
                            arquivo_saida |-> arquivo_saida, levantou |-> "",
                            val |-> relatorio,
                            ajustes |-> ajustes,
                            antes |-> Entrada(parametros_weibull, estacao,
                                              cache[estacao])]
                      ELSE [op |-> "gerar_relatorio", estacao |-> estacao,
                            arquivo_saida |-> arquivo_saida, levantou |-> "KeyError",
                            ajustes |-> ajustes]
            /\ arquivos' =
                 IF ok /\ arquivo_saida # None /\ arquivo_saida # ""
                 THEN [f \in DOMAIN arquivos \cup {arquivo_saida} |->
                          IF f = arquivo_saida THEN relatorio ELSE arquivos[f]]
                 ELSE arquivos
            /\ UNCHANGED <<dados, tem_altura, estacoes>>

AnalisarCissalhamento(estacao, alturas) ==
    /\ ret' = IF Len(alturas) >= 1 /\ ~tem_altura
              THEN [op |-> "analisar_cissalhamento", estacao |-> estacao,
                    alturas |-> alturas, levantou |-> "KeyError"]
              ELSE [op |-> "analisar_cissalhamento", estacao |-> estacao,
                    alturas |-> alturas, levantou |-> "",
                    val |-> Resultados(estacao, alturas)]
    /\ UNCHANGED <<dados, tem_altura, estacoes, parametros_weibull, arquivos,
                   ultimo_ajuste>>

Next ==
    \/ \E estacao \in {"A", None} : CalcularEstatisticas(estacao)
    \/ \E estacao \in EstacoesArg \cup {None}, setores \in SetoresArg :
           AjustarDistribuicaoWeibull(estacao, setores)
    \/ \E estacao \in EstacoesArg : CalcularPotencialEolico(estacao)
    \/ \E estacao \in EstacoesArg, arquivo_saida \in ArquivosArg :
           GerarRelatorio(estacao, arquivo_saida)
    \/ AnalisarCissalhamento("A", ListaExemplo)

Spec == Init /\ [][Next]_vars

\* the shear analysis over all its inputs; it neither reads nor writes the cache
NextCissalhamento ==
    \E estacao \in EstacoesArg, alturas \in ListasDeAlturas :
        AnalisarCissalhamento(estacao, alturas)

SpecCissalhamento == Init /\ [][NextCissalhamento]_vars

(***************************************************************************)
(* Properties                                                              *)
(***************************************************************************)
\* how many rows of d have their direction in sector i of N
ContagemSetor(d, i, N) == SomaDe({r \in DOMAIN d : NoSetor(r.direcao, i, N)}, d)

EhAjuste == ret.op = "ajustar_distribuicao_weibull"

EhPotencial == ret.op = "calcular_potencial_eolico"

EhRelatorio == ret.op = "gerar_relatorio"

EhCissalhamento == ret.op = "analisar_cissalhamento"

\* C1: every row of the prepared dataset has a non-null direction d with
\* 0 <= d < 360 that normalizing again leaves unchanged, and a non-null
\* speed >= 0, in every state reached by any sequence of operations.
C1_DatasetPreparado ==
    \A r \in DOMAIN dados :
        /\ ~IsNull(r.direcao)
        /\ r.direcao.t = "num" /\ 0 <= r.direcao.v /\ r.direcao.v < Circulo
        /\ Mod360(r.direcao) = r.direcao
        /\ ~IsNull(r.velocidade)
        /\ FloatGe(r.velocidade, 0)

\* the part of C1 the code keeps: no operation adds, removes or changes a row
DadosImutaveis == [][dados' = dados /\ estacoes' = estacoes]_vars

\* C2: after a fit with N sectors, every filtered row is in exactly one
\* sector and the sector counts add up to the number of filtered rows.
C2_SetoresParticionam ==
    EhAjuste =>
        LET d == FiltrarEstacao(dados, ret.estacao)
            N == ret.setores
        IN /\ \A r \in DOMAIN d :
                  Cardinality({i \in 0 .. N - 1 : NoSetor(r.direcao, i, N)}) = 1
           /\ SomaDe(0 .. N - 1, [i \in 0 .. N - 1 |-> ContagemSetor(d, i, N)])
                  = Tamanho(d)

\* the part of C2 the code keeps: the rows whose direction is a number are
\* each in exactly one sector
SetoresParticionamNumeros ==
    EhAjuste =>
        LET d == FiltrarEstacao(dados, ret.estacao)
            N == ret.setores
        IN \A r \in DOMAIN d :
               r.direcao.t = "num" =>
                   Cardinality({i \in 0 .. N - 1 : NoSetor(r.direcao, i, N)}) = 1

\* C3: the mapping a fit returns has the key of sector i exactly when the
\* sector holds more than MinAmostras filtered rows, has no other key, and
\* gives each present sector the frequency count / filtered total.
C3_LimiarDeAmostras ==
    EhAjuste =>
        LET d == FiltrarEstacao(dados, ret.estacao)
            N == ret.setores
        IN /\ DOMAIN ret.val \subseteq 0 .. N - 1
           /\ \A i \in 0 .. N - 1 :
                  /\ i \in DOMAIN ret.val <=> ContagemSetor(d, i, N) >= MinAmostras + 1
                  /\ i \in DOMAIN ret.val =>
                         ret.val[i].frequencia =
                             [num |-> ContagemSetor(d, i, N), den |-> Tamanho(d)]

\* a fit whose result leaves out a sector of exactly MinAmostras rows and
\* has a sector of MinAmostras + 1 rows
C3_Witness ==
    /\ EhAjuste
    /\ LET d == FiltrarEstacao(dados, ret.estacao)
           N == ret.setores
       IN \E i, j \in 0 .. N - 1 :
              /\ ContagemSetor(d, i, N) = MinAmostras /\ i \notin DOMAIN ret.val
              /\ ContagemSetor(d, j, N) = MinAmostras + 1 /\ j \in DOMAIN ret.val

\* C4: a power estimate for a station the cache has no entry of runs the fit
\* once and leaves an entry under that station's key; one for a station the
\* cache has an entry of runs no fit and leaves the whole cache unchanged.
C4_AjustePreguicoso ==
    [][EhPotencial' =>
          IF ret'.estacao \in DOMAIN parametros_weibull
          THEN ret'.ajustes = 0 /\ parametros_weibull' = parametros_weibull
          ELSE /\ ret'.ajustes = 1
               /\ ret'.estacao \in DOMAIN parametros_weibull'
               /\ DOMAIN parametros_weibull' = DOMAIN parametros_weibull \cup {ret'.estacao}]_vars

\* C5: a power estimate never raises, and returns 0 (the empty sum) when the
\* station has no fitted sector.
C5_SemCaminhoDeErro ==
    EhPotencial =>
        /\ ret.levantou = ""
        /\ ret.estacao \in DOMAIN parametros_weibull
        /\ DOMAIN parametros_weibull[ret.estacao] = {} => ret.val = Vazio

\* C6: a report asked for a station that is not among the known stations
\* raises ValueError and nothing else, runs no fit, and leaves the fit cache,
\* the dataset and the files as they were.
C6_EstacaoDesconhecida ==
    /\ [](EhRelatorio /\ ret.estacao \notin estacoes =>
              ret.levantou = "ValueError" /\ ret.ajustes = 0)
    /\ [][EhRelatorio' /\ ret'.estacao \notin estacoes =>
              /\ parametros_weibull' = parametros_weibull
              /\ dados' = dados
              /\ arquivos' = arquivos]_vars

\* a report refused for an unknown station although a file was asked for,
\* with a non-empty cache and no file written
C6_Witness ==
    /\ EhRelatorio
    /\ ret.estacao \notin estacoes
    /\ ret.levantou = "ValueError"
    /\ ret.arquivo_saida = "relatorio.txt"
    /\ DOMAIN parametros_weibull # {}
    /\ arquivos = Vazio

\* C8: the cache entry of every key is the result the latest fit call of that
\* key returned; right after a fit call the entry of its key is the returned
\* mapping, which depends on the dataset, the station and the sector count
\* only (so fitting again changes nothing) and has no key of another count.
C8_UltimoAjusteVence ==
    /\ DOMAIN parametros_weibull = DOMAIN ultimo_ajuste
    /\ \A chave \in DOMAIN parametros_weibull :
           parametros_weibull[chave] = ultimo_ajuste[chave]
    /\ EhAjuste =>
           /\ Chave(ret.estacao) \in DOMAIN parametros_weibull
           /\ parametros_weibull[Chave(ret.estacao)] = ret.val
           /\ ret.val = Parametros(FiltrarEstacao(dados, ret.estacao), ret.setores)
           /\ DOMAIN ret.val \subseteq 0 .. ret.setores - 1

\* a fit that replaced an entry holding a sector key the new mapping does
\* not have, by a non-empty mapping
C8_Witness ==
    /\ EhAjuste
    /\ ret.antes.presente
    /\ ret.antes.outros_setores
    /\ ret.val # Vazio

\* C9: the entry cached under the name of a known station was computed from
\* the rows of that station only.
C9_ChaveGlobalDistinta ==
    \A s \in DOMAIN parametros_weibull \cap estacoes :
        \E N \in SetoresArg :
            parametros_weibull[s] = Parametros(FiltrarEstacao(dados, s), N)

\* C10: after a successful report the cache entry of the station is the
\* SetoresPadrao-sector fit of its rows, the report lists exactly that entry,
\* and its power, classification and recommendation come from the listed
\* sectors, one summand per sector.
C10_RelatorioReajusta ==
    EhRelatorio /\ ret.levantou = "" =>
        /\ ret.estacao \in DOMAIN parametros_weibull
        /\ parametros_weibull[ret.estacao] =
               Parametros(FiltrarEstacao(dados, ret.estacao), SetoresPadrao)
        /\ ret.val.setores = parametros_weibull[ret.estacao]
        /\ ret.val.potencial = PotenciaTotal(ret.val.setores)
        /\ Tamanho(ret.val.potencial) = Cardinality(DOMAIN ret.val.setores)
        /\ ret.val.classificacao.de = ret.val.potencial
        /\ ret.val.recomendacao.de = ret.val.potencial

\* a successful report for a station whose entry before the call came from a
\* fit with other sector keys
C10_Witness ==
    /\ EhRelatorio
    /\ ret.levantou = ""
    /\ ret.antes.presente
    /\ ret.antes.outros_setores
    /\ ret.val.setores # Vazio

\* what C7 calls a computation failure
Falha(estacao, alturas) ==
    \/ ~tem_altura
    \/ Len(alturas) < 2
    \/ \E j \in 1 .. Len(alturas) : MediaAltura(estacao, alturas[j]).n = 0
    \/ alturas[1] = alturas[2]
    \/ MediaAltura(estacao, alturas[1]).soma <= 0
    \/ MediaAltura(estacao, alturas[2]).soma <= 0
    \/ alturas[1] <= 0
    \/ alturas[2] <= 0

\* C7: the shear analysis never raises; on a computation failure its result
\* has the error marker and neither exponent nor profile, and otherwise the
\* exponent and the profile and no error marker.
C7_NuncaLevanta ==
    EhCissalhamento =>
        /\ ret.levantou = ""
        /\ IF Falha(ret.estacao, ret.alturas)
           THEN DOMAIN ret.val = {"erro"}
           ELSE DOMAIN ret.val = {"expoente_cissalhamento", "perfil_vertical"}

\* the part of C7 the code keeps: a result it returns has either the error
\* marker alone or the exponent and the profile alone
ResultadoExclusivo ==
    EhCissalhamento /\ ret.levantou = "" =>
        \/ DOMAIN ret.val = {"erro"}
        \/ DOMAIN ret.val = {"expoente_cissalhamento", "perfil_vertical"}

====
